---- MODULE Spec2Model ----
(***************************************************************************)
(* TRL validation dashboard (src/trl_streamlit.py).                        *)
(*                                                                         *)
(* The program holds a catalog `checks` of six named SQL queries over the  *)
(* table dbo.co_trl and, when the run button is pressed, evaluates the     *)
(* selected ones in selection order, rendering each result on the page.    *)
(*                                                                         *)
(* The table is a multiset of rows; it is modelled as a sequence whose     *)
(* index is the identity of a row, so two rows with identical column       *)
(* values stay two rows.  A query result is the set of indices of the     *)
(* rows it returns.  A nullable column holds {} for NULL and {v} for the   *)
(* value v; the key columns client_id, reference_year, trl_id and the      *)
(* timestamp acq_date are NOT NULL and hold plain integers.  SQL           *)
(* conditions are evaluated in three-valued logic and a WHERE / ON /       *)
(* HAVING / CASE WHEN keeps a row only when its condition is "T".          *)
(***************************************************************************)
EXTENDS Integers, Sequences, FiniteSets

VARIABLES table, rnk, failing, selected, pc, idx, page, queries, error

vars == <<table, rnk, failing, selected, pc, idx, page, queries, error>>

\* Largest number of rows of dbo.co_trl that is enumerated.
MaxRows == 3

\* Largest number of entries of the sidebar selection that is enumerated.
MaxSel == 3

-----------------------------------------------------------------------------
\* SQL three-valued logic

NULL == {}

SqlEq(a, v) == IF a = NULL THEN "U" ELSE IF a = {v} THEN "T" ELSE "F"

SqlNe(a, v) == IF a = NULL THEN "U" ELSE IF a = {v} THEN "F" ELSE "T"

IsNull(a) == IF a = NULL THEN "T" ELSE "F"

IsNotNull(a) == IF a = NULL THEN "F" ELSE "T"

And3(p, q) ==
  IF p = "F" \/ q = "F" THEN "F"
  ELSE IF p = "T" /\ q = "T" THEN "T"
  ELSE "U"

Or3(p, q) ==
  IF p = "T" \/ q = "T" THEN "T"
  ELSE IF p = "F" /\ q = "F" THEN "F"
  ELSE "U"

\* comparison of two NOT NULL values
Cmp(b) == IF b THEN "T" ELSE "F"

-----------------------------------------------------------------------------
\* The six queries of the catalog, as functions of the table t

\* SELECT * FROM dbo.co_trl WHERE is_extrapolated = 0 AND rationale IS NULL
InvalidNonExtrapolatedNullRationale(t) ==
  { i \in DOMAIN t :
      And3(SqlEq(t[i].is_extrapolated, 0), IsNull(t[i].rationale)) = "T" }

\* WITH first_year AS (SELECT client_id, MIN(reference_year) ... GROUP BY client_id)
first_year(t) ==
  { [client_id |-> c,
     min_year  |-> CHOOSE y \in { t[j].reference_year : j \in { k \in DOMAIN t : t[k].client_id = c } } :
                     \A j \in DOMAIN t : t[j].client_id = c => y <= t[j].reference_year]
    : c \in { t[i].client_id : i \in DOMAIN t } }

InvalidBackwardExtrapolationMut(t) ==
  { i \in DOMAIN t :
      /\ \E f \in first_year(t) :
            And3(Cmp(t[i].client_id = f.client_id),
                 Cmp(t[i].reference_year = f.min_year)) = "T"
      /\ SqlEq(t[i].is_extrapolated, 1) = "T" }

\* ... JOIN first_year f ON t.client_id = f.client_id AND t.reference_year = f.min_year
\*     WHERE t.is_extrapolated = 1 AND t.trl_id != 9
InvalidBackwardExtrapolation(t) ==
  { i \in DOMAIN t :
      /\ \E f \in first_year(t) :
            And3(Cmp(t[i].client_id = f.client_id),
                 Cmp(t[i].reference_year = f.min_year)) = "T"
      /\ And3(SqlEq(t[i].is_extrapolated, 1), Cmp(t[i].trl_id # 9)) = "T" }

\* WITH duplicates AS (SELECT client_id, reference_year, trl_id ...
\*                     GROUP BY client_id, reference_year, trl_id HAVING COUNT(*) > 1)
duplicates(t) ==
  { d \in { [client_id |-> t[i].client_id, reference_year |-> t[i].reference_year,
             trl_id |-> t[i].trl_id] : i \in DOMAIN t } :
      Cardinality({ j \in DOMAIN t : /\ t[j].client_id = d.client_id
                                     /\ t[j].reference_year = d.reference_year
                                     /\ t[j].trl_id = d.trl_id }) > 1 }

DuplicateTRLEntriesMut(t) ==
  { i \in DOMAIN t :
      \E j \in DOMAIN t :
         /\ j < i
         /\ t[j].client_id = t[i].client_id
         /\ t[j].reference_year = t[i].reference_year
         /\ t[j].trl_id = t[i].trl_id }

\* SELECT t.* FROM dbo.co_trl t JOIN duplicates d ON t.client_id = d.client_id
\*   AND t.reference_year = d.reference_year AND t.trl_id = d.trl_id
DuplicateTRLEntries(t) ==
  { i \in DOMAIN t :
      \E d \in duplicates(t) :
         And3(Cmp(t[i].client_id = d.client_id),
              And3(Cmp(t[i].reference_year = d.reference_year),
                   Cmp(t[i].trl_id = d.trl_id))) = "T" }

TierMut(r) ==
  IF SqlEq(r.source, "Cloud A") = "T" THEN 3
  ELSE IF SqlEq(r.source, "Perplexity (Sonar)") = "T" THEN 4
  ELSE IF SqlEq(r.manual_review_quality_id, 1) = "T" THEN 1
  ELSE IF SqlEq(r.manual_review_quality_id, 2) = "T" THEN 2
  ELSE 5

\* CASE WHEN manual_review_quality_id = 1 THEN 1 WHEN manual_review_quality_id = 2 THEN 2
\*      WHEN source = 'Cloud A' THEN 3 WHEN source = 'Perplexity (Sonar)' THEN 4 ELSE 5 END
Tier(r) ==
  IF SqlEq(r.manual_review_quality_id, 1) = "T" THEN 1
  ELSE IF SqlEq(r.manual_review_quality_id, 2) = "T" THEN 2
  ELSE IF SqlEq(r.source, "Cloud A") = "T" THEN 3
  ELSE IF SqlEq(r.source, "Perplexity (Sonar)") = "T" THEN 4
  ELSE 5

\* PARTITION BY client_id, reference_year
SamePartition(t, i, j) ==
  /\ t[i].client_id = t[j].client_id
  /\ t[i].reference_year = t[j].reference_year

\* ORDER BY <tier>, acq_date DESC : row i sorts strictly before row j
SortsBefore(t, i, j) ==
  \/ Tier(t[i]) < Tier(t[j])
  \/ Tier(t[i]) = Tier(t[j]) /\ t[i].acq_date > t[j].acq_date

\* RANK() in place of ROW_NUMBER(): rows that tie on the ORDER BY share a number
RowNumberingsMut(t) ==
  { [ i \in DOMAIN t |->
        1 + Cardinality({ j \in DOMAIN t : SamePartition(t, i, j) /\ SortsBefore(t, j, i) }) ] }

\* the rows of the partition of row i
Partition(t, i) == { j \in DOMAIN t : SamePartition(t, i, j) }

\* The numbers ROW_NUMBER() may give row i: the rows of its partition that
\* sort strictly before it take the numbers below, those that sort strictly
\* after it the numbers above, and the rows that tie with it share the rest.
FirstNumber(t, i) == 1 + Cardinality({ j \in Partition(t, i) : SortsBefore(t, j, i) })

LastNumber(t, i) ==
  Cardinality(Partition(t, i)) - Cardinality({ j \in Partition(t, i) : SortsBefore(t, i, j) })

\* the numberings of rows 1..Len(t) that extend the numbering r of rows 1..(k-1)
RECURSIVE NumberFrom(_, _, _)
NumberFrom(t, k, r) ==
  IF k > Len(t) THEN { r }
  ELSE UNION { NumberFrom(t, k + 1, Append(r, v)) :
                 v \in { w \in FirstNumber(t, k)..LastNumber(t, k) :
                           \A j \in 1..(k - 1) : SamePartition(t, k, j) => r[j] # w } }

\* ROW_NUMBER() OVER (PARTITION BY ... ORDER BY ...): every numbering the engine
\* may produce.  Within a partition of n rows the numbers are 1..n, each used
\* once, increasing along the ORDER BY; rows that tie on the ORDER BY are
\* numbered in an order the engine chooses.
RowNumberings(t) == NumberFrom(t, 1, << >>)

\* SELECT * FROM ranked_trl WHERE rnk > 1, for the numbering r of the engine
PriorityViolation(t, r) == { i \in DOMAIN t : r[i] > 1 }

NullRationaleNotExtrapolatedMut(t) ==
  { i \in DOMAIN t :
      And3(IsNull(t[i].rationale), SqlNe(t[i].is_extrapolated, 1)) = "T" }

\* SELECT * FROM dbo.co_trl WHERE rationale IS NULL
\*   AND (is_extrapolated != 1 OR is_extrapolated IS NULL) AND reference_year != 2025
NullRationaleNotExtrapolated(t) ==
  { i \in DOMAIN t :
      And3(IsNull(t[i].rationale),
           And3(Or3(SqlNe(t[i].is_extrapolated, 1), IsNull(t[i].is_extrapolated)),
                Cmp(t[i].reference_year # 2025))) = "T" }

ExtrapolatedRowsWithRationaleMut(t) ==
  { i \in DOMAIN t :
      And3(Or3(SqlEq(t[i].is_extrapolated, 1), IsNull(t[i].is_extrapolated)),
           IsNotNull(t[i].rationale)) = "T" }

\* SELECT * FROM dbo.co_trl WHERE is_extrapolated = 1 AND rationale IS NOT NULL
ExtrapolatedRowsWithRationale(t) ==
  { i \in DOMAIN t :
      And3(SqlEq(t[i].is_extrapolated, 1), IsNotNull(t[i].rationale)) = "T" }

-----------------------------------------------------------------------------
\* The catalog and the data source

\* checks = { name: {"description": ..., "query": ...}, ... }
\* The fifth key is written with the sign for "not equal" in the source; it is
\* spelled != here.  A query text is named by a tag.
checks ==
  [ name \in { "Invalid Non-Extrapolated Null Rationale",
               "Invalid Backward Extrapolation",
               "Duplicate TRL Entries",
               "Priority Violation",
               "Null Rationale not Extrapolated (!= 2025)",
               "Extrapolated Rows with Rationale" } |->
      [ description |->
          CASE name = "Invalid Non-Extrapolated Null Rationale" ->
                 "Rows with NULL rationale but not marked as extrapolated."
            [] name = "Invalid Backward Extrapolation" ->
                 "First-year extrapolated entries not using TRL ID 9."
            [] name = "Duplicate TRL Entries" ->
                 "Duplicate rows for the same client_id, reference_year, and trl_id."
            [] name = "Priority Violation" ->
                 "Lower-priority TRL entries for same client/year."
            [] name = "Null Rationale not Extrapolated (!= 2025)" ->
                 "NULL rationales without extrapolation flag (except 2025)."
            [] OTHER ->
                 "Extrapolated rows that unexpectedly have rationale.",
        query |->
          CASE name = "Invalid Non-Extrapolated Null Rationale" -> "sql:non_extrapolated_null_rationale"
            [] name = "Invalid Backward Extrapolation" -> "sql:backward_extrapolation"
            [] name = "Duplicate TRL Entries" -> "sql:duplicates"
            [] name = "Priority Violation" -> "sql:ranked_trl"
            [] name = "Null Rationale not Extrapolated (!= 2025)" -> "sql:null_rationale_not_2025"
            [] OTHER -> "sql:extrapolated_with_rationale" ] ]

\* list(checks.keys()), the options of the sidebar multiselect
RuleNames == DOMAIN checks

\* a name that is not a key of checks
NotARule == "Not A Rule"

\* The rows the engine returns for the query text q on table t, when its
\* window numbering is r.
Rows(q, t, r) ==
  CASE q = "sql:non_extrapolated_null_rationale" -> InvalidNonExtrapolatedNullRationale(t)
    [] q = "sql:backward_extrapolation" -> InvalidBackwardExtrapolation(t)
    [] q = "sql:duplicates" -> DuplicateTRLEntries(t)
    [] q = "sql:ranked_trl" -> PriorityViolation(t, r)
    [] q = "sql:null_rationale_not_2025" -> NullRationaleNotExtrapolated(t)
    [] OTHER -> ExtrapolatedRowsWithRationale(t)

-----------------------------------------------------------------------------
\* The page and one pass of the loop body

Elem(el, name, text, rows, n) ==
  [el |-> el, name |-> name, text |-> text, rows |-> rows, n |-> n]

NoError == {}

Raised(kind, name) == { [kind |-> kind, name |-> name] }

\* checks.get(name, <first entry>) in place of checks[name]: a name that is not a
\* key is looked up without an exception and a query is submitted for it
BodyGet(st, name) ==
  LET sub == Append(st.page, Elem("subheader", name, "", {}, 0))
      key == IF name \in DOMAIN checks THEN name ELSE "Invalid Non-Extrapolated Null Rationale"
      md  == Append(sub, Elem("markdown", name, checks[key].description, {}, 0))
      qs  == Append(st.queries, checks[key].query)
  IN  IF name \in failing
      THEN [page |-> md, queries |-> qs, error |-> Raised("DataSourceError", name)]
      ELSE LET df   == Rows(checks[key].query, table, rnk)
               shown == md \o << Elem("info", name, "", {}, Cardinality(df)),
                                 Elem("dataframe", name, "", df, Cardinality(df)) >>
           IN [page |-> IF df # {} THEN Append(shown, Elem("download", name, "", df, Cardinality(df)))
                        ELSE shown,
               queries |-> qs, error |-> NoError]

\* df is not rebound per rule but accumulated: a rule's dataframe also holds
\* the rows of the rules evaluated before it
BodyShared(st, name) ==
  LET sub == Append(st.page, Elem("subheader", name, "", {}, 0))
  IN  IF name \notin DOMAIN checks
      THEN [page |-> sub, queries |-> st.queries, error |-> Raised("KeyError", name)]
      ELSE
        LET md == Append(sub, Elem("markdown", name, checks[name].description, {}, 0))
            qs == Append(st.queries, checks[name].query)
        IN  IF name \in failing
            THEN [page |-> md, queries |-> qs, error |-> Raised("DataSourceError", name)]
            ELSE LET df   == Rows(checks[name].query, table, rnk)
                             \cup UNION { st.page[k].rows : k \in DOMAIN st.page }
                     shown == md \o << Elem("info", name, "", {}, Cardinality(df)),
                                       Elem("dataframe", name, "", df, Cardinality(df)) >>
                 IN [page |-> IF df # {} THEN Append(shown, Elem("download", name, "", df, Cardinality(df)))
                              ELSE shown,
                     queries |-> qs, error |-> NoError]

\* One pass of `for name in selected_checks:` from the outputs st so far.
\*   st.subheader(name)
\*   st.markdown(checks[name]['description'])     KeyError when name is not a key
\*   df = pd.read_sql(checks[name]["query"], engine)   raises when the query fails
\*   st.info(len(df)); st.dataframe(df); download button when df is not empty
\* An exception is not caught: it ends the script run.
Body(st, name) ==
  LET sub == Append(st.page, Elem("subheader", name, "", {}, 0))
  IN  IF name \notin DOMAIN checks
      THEN [page |-> sub, queries |-> st.queries, error |-> Raised("KeyError", name)]
      ELSE
        LET md == Append(sub, Elem("markdown", name, checks[name].description, {}, 0))
            qs == Append(st.queries, checks[name].query)
        IN  IF name \in failing
            THEN [page |-> md, queries |-> qs, error |-> Raised("DataSourceError", name)]
            ELSE LET df   == Rows(checks[name].query, table, rnk)
                     shown == md \o << Elem("info", name, "", {}, Cardinality(df)),
                                       Elem("dataframe", name, "", df, Cardinality(df)) >>
                 IN [page |-> IF df # {} THEN Append(shown, Elem("download", name, "", df, Cardinality(df)))
                              ELSE shown,
                     queries |-> qs, error |-> NoError]

-----------------------------------------------------------------------------
\* The script run started by the run button

RunEmptyMut ==
  /\ pc = "idle"
  /\ selected = << >>
  /\ page' = Append(page, Elem("warning", "", "Please select at least one check to run.", {}, 0))
  /\ error' = Raised("ValueError", "")
  /\ pc' = "done"
  /\ UNCHANGED <<table, rnk, failing, selected, idx, queries>>

\* if run_button: if not selected_checks: st.warning(...)
RunEmpty ==
  /\ pc = "idle"
  /\ selected = << >>
  /\ page' = Append(page, Elem("warning", "", "Please select at least one check to run.", {}, 0))
  /\ pc' = "done"
  /\ UNCHANGED <<table, rnk, failing, selected, idx, queries, error>>

\* if run_button: ... else: for name in selected_checks   (entering the loop)
RunLoop ==
  /\ pc = "idle"
  /\ selected # << >>
  /\ pc' = "loop"
  /\ idx' = 1
  /\ UNCHANGED <<table, rnk, failing, selected, page, queries, error>>

\* the exception of an iteration is caught and kept, and the loop goes on
IterateMut ==
  /\ pc = "loop"
  /\ LET out == Body([page |-> page, queries |-> queries, error |-> error], selected[idx])
     IN /\ page' = out.page
        /\ queries' = out.queries
        /\ error' = IF out.error # NoError THEN out.error ELSE error
        /\ IF idx = Len(selected)
           THEN pc' = "done" /\ idx' = idx
           ELSE pc' = "loop" /\ idx' = idx + 1
  /\ UNCHANGED <<table, rnk, failing, selected>>

\* one iteration of the loop, for name = selected_checks[idx]
Iterate ==
  /\ pc = "loop"
  /\ LET out == Body([page |-> page, queries |-> queries, error |-> error], selected[idx])
     IN /\ page' = out.page
        /\ queries' = out.queries
        /\ error' = out.error
        /\ IF out.error # NoError \/ idx = Len(selected)
           THEN pc' = "done" /\ idx' = idx
           ELSE pc' = "loop" /\ idx' = idx + 1
  /\ UNCHANGED <<table, rnk, failing, selected>>

-----------------------------------------------------------------------------
\* The whole script run as a function of the selection (lines 109-124), used to
\* compare orderings of one selection

RECURSIVE RunFrom(_, _, _)
RunFrom(st, sel, k) ==
  IF k > Len(sel) \/ st.error # NoError THEN st
  ELSE RunFrom(Body(st, sel[k]), sel, k + 1)

ScriptRun(sel) ==
  IF sel = << >>
  THEN [page |-> << Elem("warning", "", "Please select at least one check to run.", {}, 0) >>,
        queries |-> << >>, error |-> NoError]
  ELSE RunFrom([page |-> << >>, queries |-> << >>, error |-> NoError], sel, 1)

-----------------------------------------------------------------------------
\* Tables and selections

Row(c, y, trl, ext, rat, src, mrq, acq) ==
  [client_id |-> c, reference_year |-> y, trl_id |-> trl, is_extrapolated |-> ext,
   rationale |-> rat, source |-> src, manual_review_quality_id |-> mrq, acq_date |-> acq]

RECURSIVE SeqOf(_)
SeqOf(S) ==
  IF S = {} THEN << >>
  ELSE LET x == CHOOSE y \in S : TRUE IN << x >> \o SeqOf(S \ {x})

\* ks lists row numbers in non-decreasing order
NonDecreasing(ks) == \A i \in DOMAIN ks : \A j \in DOMAIN ks : i <= j => ks[i] <= ks[j]

\* the table that lists the rows U[ks[1]], U[ks[2]], ...
TableOf(U, ks) == [i \in DOMAIN ks |-> U[ks[i]]]

\* rows that differ in the columns the rationale rules read
RationaleRows ==
  { Row(1, y, 5, e, ra, {"Cloud A"}, NULL, 1) :
      y \in {2024, 2025}, e \in {NULL, {0}, {1}}, ra \in {NULL, {"measured"}} }

\* rows that differ in the columns the backward-extrapolation rule reads
BackwardRows ==
  { Row(c, y, trl, e, NULL, {"Cloud A"}, NULL, 1) :
      c \in {1, 2}, y \in {2020, 2021}, trl \in {5, 9}, e \in {NULL, {0}, {1}} }

\* rows that differ in the columns the duplicate rule reads, and in one it does not
DuplicateRows ==
  { Row(c, y, trl, {0}, {"measured"}, {"Cloud A"}, NULL, a) :
      c \in {1, 2}, y \in {2020, 2021}, trl \in {5, 9}, a \in {1, 2} }

\* (manual_review_quality_id, source) pairs covering the five tiers and a row
\* that matches both a manual-review tier and a source tier
PriorityKinds ==
  { <<{1}, {"Cloud A"}>>, <<{2}, {"Perplexity (Sonar)"}>>, <<NULL, {"Cloud A"}>>,
    <<{3}, {"Perplexity (Sonar)"}>>, <<NULL, NULL>>, <<NULL, {"Other"}>> }

PriorityRows ==
  { Row(c, 2024, 5, {0}, {"measured"}, k[2], k[1], a) :
      c \in {1, 2}, k \in PriorityKinds, a \in {1, 2, 3} }

RationaleUniverse == SeqOf(RationaleRows)

BackwardUniverse == SeqOf(BackwardRows)

DuplicateUniverse == SeqOf(DuplicateRows)

PriorityUniverse == SeqOf(PriorityRows)

\* one table on which every rule returns rows and the ranking has a tie
RunTable ==
  << Row(1, 2024, 5, {0}, NULL, {"Cloud A"}, NULL, 1),
     Row(1, 2024, 5, {1}, {"measured"}, {"Cloud A"}, NULL, 1),
     Row(2, 2025, 9, NULL, NULL, NULL, {1}, 2) >>

\* the selections of at most MaxSel entries, no entry twice (a multiselect)
Selections(S) ==
  UNION { { s \in [1..n -> S] : \A i, j \in 1..n : i # j => s[i] # s[j] } : n \in 0..MaxSel }

InitOutputs ==
  /\ pc = "idle"
  /\ idx = 0
  /\ page = << >>
  /\ queries = << >>
  /\ error = NoError

\* the numberings that a run selecting sel can tell apart: all of them when the
\* ranked query is selected, one otherwise (no other query reads the numbering)
NumberingsFor(t, sel) ==
  IF "Priority Violation" \in { sel[k] : k \in DOMAIN sel }
  THEN RowNumberings(t)
  ELSE { CHOOSE r \in RowNumberings(t) : TRUE }

\* One rule family on every multiset of at most MaxRows rows drawn from the
\* rows U, the data source answering.  A multiset is listed once: the order in
\* which it is listed carries no information, no query reads it.
InitQuery(U, sel) ==
  /\ \E n \in 0..MaxRows : \E ks \in [1..n -> 1..Len(U)] :
        NonDecreasing(ks) /\ table = TableOf(U, ks)
  /\ rnk \in NumberingsFor(table, sel)
  /\ failing = {}
  /\ selected = sel
  /\ InitOutputs

\* every selection and every single failure on one table
InitRun ==
  /\ table = RunTable
  /\ rnk \in RowNumberings(table)
  /\ failing \in { f \in SUBSET RuleNames : Cardinality(f) <= 1 }
  /\ selected \in Selections(RuleNames \cup {NotARule})
  /\ InitOutputs

Init ==
  \/ InitQuery(RationaleUniverse, << "Invalid Non-Extrapolated Null Rationale",
                                 "Null Rationale not Extrapolated (!= 2025)",
                                 "Extrapolated Rows with Rationale" >>)
  \/ InitQuery(BackwardUniverse, << "Invalid Backward Extrapolation" >>)
  \/ InitQuery(DuplicateUniverse, << "Duplicate TRL Entries" >>)
  \/ InitQuery(PriorityUniverse, << "Priority Violation" >>)
  \/ InitRun

Next == RunEmpty \/ RunLoop \/ Iterate

Spec == Init /\ [][Next]_vars

TypeOK ==
  /\ pc \in {"idle", "loop", "done"}
  /\ idx \in 0..Len(selected)
  /\ failing \subseteq RuleNames

-----------------------------------------------------------------------------
\* What the page reports

Range(f) == { f[k] : k \in DOMAIN f }

\* the rule's dataframe is on the page
Shown(name) == \E k \in DOMAIN page : page[k].el = "dataframe" /\ page[k].name = name

RowsShown(name) ==
  UNION { page[k].rows : k \in { j \in DOMAIN page : page[j].el = "dataframe" /\ page[j].name = name } }

\* the count of st.info is on the page and is n
CountShown(name, n) ==
  \E k \in DOMAIN page : page[k].el = "info" /\ page[k].name = name /\ page[k].n = n

\* nothing of the rule is on the page
Absent(name) == \A k \in DOMAIN page : page[k].name # name

\* the outcome of rule `name` in the outputs st of a run
Outcome(st, name) ==
  IF \E e \in st.error : e.name = name
  THEN [status |-> "failed", rows |-> {}, n |-> 0]
  ELSE IF \E k \in DOMAIN st.page : st.page[k].el = "dataframe" /\ st.page[k].name = name
  THEN LET k == CHOOSE j \in DOMAIN st.page : st.page[j].el = "dataframe" /\ st.page[j].name = name
       IN [status |-> "reported", rows |-> st.page[k].rows, n |-> st.page[k].n]
  ELSE [status |-> "none", rows |-> {}, n |-> 0]

Outputs == [page |-> page, queries |-> queries, error |-> error]

\* the orderings of a selection
Orderings(sel) ==
  { [i \in DOMAIN sel |-> sel[f[i]]] :
      f \in { g \in [DOMAIN sel -> DOMAIN sel] : \A i, j \in DOMAIN sel : i # j => g[i] # g[j] } }

\* a name at which the loop stops: not in the catalog, or its query fails
Stops(name) == name \notin RuleNames \/ name \in failing

\* a name that stops the loop comes before position k of sel
StoppedBefore(sel, k) == \E j \in 1..(k - 1) : Stops(sel[j])

Pos(sel, name) == CHOOSE k \in DOMAIN sel : sel[k] = name

ExemptYear == 2025

-----------------------------------------------------------------------------
\* Priority Violation

\* the tier of a row, in the words of the ranking policy
PolicyTier(r) ==
  IF r.manual_review_quality_id = {1} THEN 1
  ELSE IF r.manual_review_quality_id = {2} THEN 2
  ELSE IF r.source = {"Cloud A"} THEN 3
  ELSE IF r.source = {"Perplexity (Sonar)"} THEN 4
  ELSE 5

Group(i) == { j \in DOMAIN table : /\ table[j].client_id = table[i].client_id
                                   /\ table[j].reference_year = table[i].reference_year }

\* row i has the lowest tier of its group and, among the rows of that tier,
\* the latest acq_date
Best(i) ==
  \A j \in Group(i) :
     /\ PolicyTier(table[i]) <= PolicyTier(table[j])
     /\ PolicyTier(table[i]) = PolicyTier(table[j]) => table[i].acq_date >= table[j].acq_date

DistinctAcqDates ==
  \A i, j \in DOMAIN table : (i # j /\ j \in Group(i)) => table[i].acq_date # table[j].acq_date

\* C1: when the rows of every (client_id, reference_year) group have pairwise
\* distinct acq_date, "Priority Violation" reports exactly the rows that are
\* not the best row of their group (lowest tier, then latest acq_date; the
\* manual-review tier decides before the source tier).
C1_PriorityReturnsNonBest ==
  (Shown("Priority Violation") /\ DistinctAcqDates) =>
     RowsShown("Priority Violation") = { i \in DOMAIN table : ~Best(i) }

\* a group of three rows with distinct dates in which the canonical row matches
\* both a manual-review tier and a source tier and is older than a flagged row
C1_Witness ==
  /\ Shown("Priority Violation")
  /\ DistinctAcqDates
  /\ \E i \in DOMAIN table :
        /\ Cardinality(Group(i)) = 3
        /\ i \notin RowsShown("Priority Violation")
        /\ table[i].manual_review_quality_id = {1}
        /\ table[i].source = {"Cloud A"}
        /\ \E j \in Group(i) : /\ j \in RowsShown("Priority Violation")
                               /\ table[j].acq_date > table[i].acq_date
                               /\ table[j].source = {"Cloud A"}

\* C8: for every table, ties included, "Priority Violation" leaves exactly one
\* row of every (client_id, reference_year) group unreported: n - 1 of its n rows
\* are reported.
C8_OneCanonicalPerGroup ==
  Shown("Priority Violation") =>
     \A i \in DOMAIN table :
        /\ Cardinality(Group(i) \cap RowsShown("Priority Violation")) = Cardinality(Group(i)) - 1
        /\ Cardinality(Group(i) \ RowsShown("Priority Violation")) = 1

\* a group whose two best rows tie on tier and acq_date
C8_Witness ==
  /\ Shown("Priority Violation")
  /\ \E i, j \in DOMAIN table :
        /\ i # j
        /\ j \in Group(i)
        /\ Cardinality(Group(i)) = 3
        /\ Best(i) /\ Best(j)
        /\ i \in RowsShown("Priority Violation")
        /\ j \notin RowsShown("Priority Violation")

-----------------------------------------------------------------------------
\* The rationale rules

NonExtrapolatedNullRationale(i) ==
  table[i].is_extrapolated = {0} /\ table[i].rationale = NULL

BothRationaleRulesShown ==
  /\ Shown("Invalid Non-Extrapolated Null Rationale")
  /\ Shown("Null Rationale not Extrapolated (!= 2025)")

\* C2 (as stated): a row with is_extrapolated = false and rationale = null is
\* reported by both rationale rules when its reference_year is not the exempt
\* year, and by neither of them when it is the exempt year.
C2_AsStated ==
  BothRationaleRulesShown =>
     \A i \in DOMAIN table :
        NonExtrapolatedNullRationale(i) =>
           IF table[i].reference_year # ExemptYear
           THEN /\ i \in RowsShown("Invalid Non-Extrapolated Null Rationale")
                /\ i \in RowsShown("Null Rationale not Extrapolated (!= 2025)")
           ELSE /\ i \notin RowsShown("Invalid Non-Extrapolated Null Rationale")
                /\ i \notin RowsShown("Null Rationale not Extrapolated (!= 2025)")

\* C2 (amended): such a row is reported by both rules when its reference_year
\* is not the exempt year; when it is the exempt year the row is reported by
\* "Invalid Non-Extrapolated Null Rationale" and not by "Null Rationale not
\* Extrapolated (!= 2025)".
C2_ExemptOnlyInSecondRule ==
  BothRationaleRulesShown =>
     \A i \in DOMAIN table :
        NonExtrapolatedNullRationale(i) =>
           /\ i \in RowsShown("Invalid Non-Extrapolated Null Rationale")
           /\ (i \in RowsShown("Null Rationale not Extrapolated (!= 2025)")
                 <=> table[i].reference_year # ExemptYear)

C2_Witness ==
  /\ BothRationaleRulesShown
  /\ \E i, j \in DOMAIN table :
        /\ NonExtrapolatedNullRationale(i) /\ table[i].reference_year = ExemptYear
        /\ NonExtrapolatedNullRationale(j) /\ table[j].reference_year # ExemptYear
        /\ i \in RowsShown("Invalid Non-Extrapolated Null Rationale")
        /\ j \in RowsShown("Null Rationale not Extrapolated (!= 2025)")

\* C10: "Extrapolated Rows with Rationale" reports a row if and only if its
\* is_extrapolated is true and its rationale is not null.
C10_ExtrapolatedWithRationale ==
  Shown("Extrapolated Rows with Rationale") =>
     \A i \in DOMAIN table :
        i \in RowsShown("Extrapolated Rows with Rationale")
          <=> (table[i].is_extrapolated = {1} /\ table[i].rationale # NULL)

\* a reported row next to a row with rationale whose is_extrapolated is null
\* and one whose is_extrapolated is false
C10_Witness ==
  /\ Shown("Extrapolated Rows with Rationale")
  /\ \E i, j, k \in DOMAIN table :
        /\ i \in RowsShown("Extrapolated Rows with Rationale")
        /\ table[j].is_extrapolated = NULL /\ table[j].rationale # NULL
        /\ table[k].is_extrapolated = {0} /\ table[k].rationale # NULL
        /\ j \notin RowsShown("Extrapolated Rows with Rationale")
        /\ k \notin RowsShown("Extrapolated Rows with Rationale")

-----------------------------------------------------------------------------
\* Duplicates and backward extrapolation

SameTriple(i, j) ==
  /\ table[i].client_id = table[j].client_id
  /\ table[i].reference_year = table[j].reference_year
  /\ table[i].trl_id = table[j].trl_id

\* C4: "Duplicate TRL Entries" reports a row if and only if another row of the
\* table has the same (client_id, reference_year, trl_id).
C4_DuplicatesAllOfGroup ==
  Shown("Duplicate TRL Entries") =>
     \A i \in DOMAIN table :
        i \in RowsShown("Duplicate TRL Entries")
          <=> \E j \in DOMAIN table : j # i /\ SameTriple(i, j)

\* a group of two, first row included, next to a row with a unique triple
C4_Witness ==
  /\ Shown("Duplicate TRL Entries")
  /\ \E i, j, k \in DOMAIN table :
        /\ i < j /\ SameTriple(i, j)
        /\ \A m \in DOMAIN table : m # k => ~SameTriple(k, m)
        /\ RowsShown("Duplicate TRL Entries") = {i, j}

\* reference_year of row i is the earliest of its client
FirstYearOfClient(i) ==
  \A j \in DOMAIN table :
     table[j].client_id = table[i].client_id => table[i].reference_year <= table[j].reference_year

\* C5: "Invalid Backward Extrapolation" reports a row if and only if its
\* reference_year is the minimum of its client, its is_extrapolated is true
\* and its trl_id is not 9.
C5_BackwardExtrapolation ==
  Shown("Invalid Backward Extrapolation") =>
     \A i \in DOMAIN table :
        i \in RowsShown("Invalid Backward Extrapolation")
          <=> /\ FirstYearOfClient(i)
              /\ table[i].is_extrapolated = {1}
              /\ table[i].trl_id # 9

\* a reported first-year row, an unreported first-year row with trl_id 9 and
\* an unreported extrapolated row at a later year of the same client
C5_Witness ==
  /\ Shown("Invalid Backward Extrapolation")
  /\ \E i, j, k \in DOMAIN table :
        /\ i \in RowsShown("Invalid Backward Extrapolation")
        /\ table[j].client_id = table[i].client_id
        /\ table[k].client_id = table[i].client_id
        /\ FirstYearOfClient(j) /\ table[j].is_extrapolated = {1} /\ table[j].trl_id = 9
        /\ ~FirstYearOfClient(k) /\ table[k].is_extrapolated = {1} /\ table[k].trl_id # 9
        /\ j \notin RowsShown("Invalid Backward Extrapolation")
        /\ k \notin RowsShown("Invalid Backward Extrapolation")

-----------------------------------------------------------------------------
\* The run loop

\* the rule's rows and count are on the page, as the data source returns them
ReportedInFull(name) ==
  /\ Shown(name)
  /\ RowsShown(name) = Rows(checks[name].query, table, rnk)
  /\ CountShown(name, Cardinality(Rows(checks[name].query, table, rnk)))

\* the run has ended on the failure of the query of the selected rule f
QueryFailedOn(f) ==
  /\ pc = "done"
  /\ f \in Range(selected)
  /\ error = Raised("DataSourceError", f)

C6_EmptySelection ==
  (pc = "done" /\ selected = << >>) =>
     /\ queries = << >>
     /\ error = NoError
     /\ \A k \in DOMAIN page : page[k].el = "warning"

C6_Witness ==
  /\ pc = "done"
  /\ selected = << >>
  /\ page # << >>

\* the run has ended on position idx of the selection
EndedAt(k) == pc = "done" /\ idx = k /\ k \in DOMAIN selected

====
